---- MODULE Spec2Model ----
(***************************************************************************)
(* Holiday-aware working-day arithmetic of the task calendar.              *)
(*                                                                         *)
(* Calendar dates ("yyyy-MM-dd" strings and midnight Date objects) are day *)
(* numbers: day 0 is Sunday 2023-12-31, day 1 is Monday 2024-01-01, day 7  *)
(* is Sunday 2024-01-07, and getDay(d) = d % 7 (0 = Sunday .. 6 = Saturday)*)
(***************************************************************************)
EXTENDS Integers, FiniteSets, Sequences, Bags, TLC

\* ------------------------------------------------------------------ bounds
\* Latest date the enumerated inputs (anchor dates, rule dates) take.
MaxDate == 7
\* Latest start_from an enumerated day_of_week rule takes.
MaxStartFrom == 1
\* Largest number of rules in an enumerated rule array.
MaxRules == 2
\* Largest working-day count (daysToComplete) enumerated.
MaxWorkingDays == 3
\* Iterations after which a date walk is reported as still running.
MaxWalk == 30

\* null / undefined of a nullable column
Null == -1000

\* Working-day counts below 1 that are enumerated: 1 - MaxBelowOne .. 0.
MaxBelowOne == 2

Dates == 0..MaxDate
WorkingDayCounts == 1..MaxWorkingDays
\* Counts a walk receives uncoerced (an emptied input, a stored row).
LowDayCounts == (1 - MaxBelowOne)..0

\* ------------------------------------------------------- holiday records
Holiday(id, type, specific_date, day_of_week, start_from, cancelled) ==
  [id |-> id, holiday_type |-> type, specific_date |-> specific_date,
   day_of_week |-> day_of_week, start_from |-> start_from, cancelled |-> cancelled,
   cancelled_date |-> Null]

\* Rows a component can receive in its `holidays` array (always loaded with
\* cancelled = false); the row id plays no part in classification.
HolidayRows ==
  {Holiday(0, "specific_date", d, Null, d, FALSE) : d \in Dates}
    \cup {Holiday(0, "exception", d, Null, Null, FALSE) : d \in Dates}
    \cup {Holiday(0, "day_of_week", Null, w, sf, FALSE) :
            w \in 0..6, sf \in {Null} \cup (0..MaxStartFrom)}

RECURSIVE ArraysOfAtMost(_)
ArraysOfAtMost(n) ==
  IF n = 0 THEN {{}}
  ELSE LET smaller == ArraysOfAtMost(n - 1)
       IN  smaller \cup {hs \cup {h} : hs \in smaller, h \in HolidayRows}

HolidayArrays == ArraysOfAtMost(MaxRules)

\* ------------------------------------------------------------ classifiers
getDay(date) == date % 7

\* CalendarWithTasks module-level classifier.
isHoliday(date, hs) ==
  LET dayOfWeek == getDay(date)
      isException == \E h \in hs : h.holiday_type = "exception" /\ h.specific_date = date
  IN  IF isException THEN FALSE
      ELSE \E h \in hs :
             IF h.holiday_type = "specific_date" /\ h.specific_date # Null
               THEN h.specific_date = date
             ELSE IF h.holiday_type = "day_of_week" /\ h.day_of_week # Null
               THEN IF h.start_from # Null
                      THEN h.day_of_week = dayOfWeek
                             /\ (date > h.start_from \/ date = h.start_from)
                      ELSE FALSE
             ELSE FALSE

\* TaskPanel classifier (memoized copy with an empty-array guard).
panelIsHoliday(date, hs) ==
  IF hs = {} THEN FALSE
  ELSE LET dayOfWeek == getDay(date)
           isException == \E h \in hs : h.holiday_type = "exception" /\ h.specific_date = date
       IN  IF isException THEN FALSE
           ELSE \E h \in hs :
                  IF h.holiday_type = "specific_date" /\ h.specific_date # Null
                    THEN h.specific_date = date
                  ELSE IF h.holiday_type = "day_of_week" /\ h.day_of_week # Null
                    THEN IF h.start_from # Null
                           THEN h.day_of_week = dayOfWeek
                                  /\ (date > h.start_from \/ date = h.start_from)
                           ELSE FALSE
                  ELSE FALSE

\* OrdersTable classifier.
ordersIsHoliday(date, hs) ==
  LET dayOfWeek == getDay(date)
  IN  IF dayOfWeek = 0 \/ dayOfWeek = 6 THEN TRUE
      ELSE LET isSpecificDateHoliday ==
                 \E h \in hs : h.holiday_type = "specific_date" /\ h.specific_date = date
               isDayOfWeekHoliday ==
                 \E h \in hs : h.holiday_type = "day_of_week" /\ h.day_of_week = dayOfWeek
               isException ==
                 \E h \in hs : h.holiday_type = "exception" /\ h.specific_date = date
           IN  (isSpecificDateHoliday \/ isDayOfWeekHoliday) /\ ~isException

\* DueDatesPage.isHoliday with its exception check left out.
dueDatesIsHolidayWithoutExceptions(date, hs) ==
  LET dayOfWeek == getDay(date)
  IN  \E h \in hs :
        IF h.holiday_type = "specific_date" /\ h.specific_date # Null
          THEN h.specific_date = date
        ELSE IF h.holiday_type = "day_of_week" /\ h.day_of_week # Null
          THEN IF h.start_from # Null
                 THEN h.day_of_week = dayOfWeek
                        /\ (date > h.start_from \/ date = h.start_from)
                 ELSE FALSE
        ELSE FALSE

\* DueDatesPage classifier.
dueDatesIsHoliday(date, hs) ==
  LET dayOfWeek == getDay(date)
      isException == \E h \in hs : h.holiday_type = "exception" /\ h.specific_date = date
  IN  IF isException THEN FALSE
      ELSE \E h \in hs :
             IF h.holiday_type = "specific_date" /\ h.specific_date # Null
               THEN h.specific_date = date
             ELSE IF h.holiday_type = "day_of_week" /\ h.day_of_week # Null
               THEN IF h.start_from # Null
                      THEN h.day_of_week = dayOfWeek
                             /\ (date > h.start_from \/ date = h.start_from)
                      ELSE FALSE
             ELSE FALSE

\* What isDateHoliday returns: { isHoliday } or { isHoliday: false, error }.
DateHolidayResult(answer, error) == [isHoliday |-> answer, error |-> error]

\* isDateHoliday, the classifier that queries the holidays table `rows`;
\* either of its two queries may fail.
isDateHoliday(rows, dateStr, specificError, recurringError) ==
  LET dayOfWeek == getDay(dateStr)
      specificHolidays == {h \in rows : h.specific_date = dateStr /\ ~h.cancelled}
      recurringHolidays ==
        {h \in rows : /\ h.day_of_week = dayOfWeek
                      /\ h.holiday_type = "day_of_week"
                      /\ ~h.cancelled}
      applicableRecurringHoliday ==
        \E h \in recurringHolidays :
          IF h.start_from = Null THEN FALSE
          ELSE IF ~(h.start_from < dateStr \/ h.start_from = dateStr) THEN FALSE
          ELSE IF h.cancelled /\ h.cancelled_date # Null THEN dateStr < h.cancelled_date
          ELSE TRUE
  IN  IF specificError THEN DateHolidayResult(FALSE, TRUE)
      ELSE IF \E h \in specificHolidays : h.holiday_type = "exception"
        THEN DateHolidayResult(FALSE, FALSE)
      ELSE IF \E h \in specificHolidays : h.holiday_type = "specific_date"
        THEN DateHolidayResult(TRUE, FALSE)
      ELSE IF recurringError THEN DateHolidayResult(FALSE, TRUE)
      ELSE DateHolidayResult(applicableRecurringHoliday, FALSE)

\* ------------------------------------------------------------- date walks
\* A walk that is still running after MaxWalk iterations yields Null.
RECURSIVE panelBackLoop(_, _, _, _)
panelBackLoop(currentDate, remainingWorkingDays, hs, fuel) ==
  IF remainingWorkingDays > 0
    THEN IF fuel = 0 THEN Null
         ELSE LET d == currentDate - 1
              IN  panelBackLoop(d, IF panelIsHoliday(d, hs) THEN remainingWorkingDays
                                   ELSE remainingWorkingDays - 1, hs, fuel - 1)
    ELSE currentDate

\* calculateStartDate with remainingWorkingDays started at workingDays (the
\* end date no longer counts as a working day).
calculateStartDateNotCountingEnd(endDate, workingDays, hs) ==
  panelBackLoop(endDate, workingDays, hs, MaxWalk)

\* calculateStartDate that counts the end date as a working day only when it
\* is no holiday.
calculateStartDateFromWorkingEnd(endDate, workingDays, hs) ==
  panelBackLoop(endDate, IF panelIsHoliday(endDate, hs) THEN workingDays
                         ELSE workingDays - 1, hs, MaxWalk)

\* TaskPanel.calculateStartDate
calculateStartDate(endDate, workingDays, hs) ==
  panelBackLoop(endDate, workingDays - 1, hs, MaxWalk)

RECURSIVE panelForwardLoop(_, _, _, _, _)
panelForwardLoop(currentDate, daysFound, workingDays, hs, fuel) ==
  IF daysFound < workingDays
    THEN IF fuel = 0 THEN Null
         ELSE LET d == currentDate + 1
              IN  panelForwardLoop(d, IF panelIsHoliday(d, hs) THEN daysFound
                                      ELSE daysFound + 1, workingDays, hs, fuel - 1)
    ELSE currentDate

\* calculateEndDate with daysFound started at 0 instead of 1 (the start date
\* no longer counts as the first working day).
calculateEndDateFromZero(startDate, workingDays, hs) ==
  panelForwardLoop(startDate, 0, workingDays, hs, MaxWalk)

\* calculateEndDate with its loop stopped after MaxWalk iterations.
calculateEndDateCapped(startDate, workingDays, hs) ==
  LET walk == panelForwardLoop(startDate, 1, workingDays, hs, MaxWalk)
  IN  IF walk = Null THEN startDate + MaxWalk ELSE walk

\* TaskPanel.calculateEndDate
calculateEndDate(startDate, workingDays, hs) ==
  panelForwardLoop(startDate, 1, workingDays, hs, MaxWalk)

\* TaskPanel.updateStartDate / handleWorkingDaysChange: the start date the
\* panel shows for an end date and a working-day count.
updateStartDate(endDate, days, hs) ==
  IF days = 1 THEN endDate
  ELSE panelBackLoop(endDate, days - 1, hs, MaxWalk)

RECURSIVE ordersBackLoop(_, _, _, _)
ordersBackLoop(currentDate, remainingWorkingDays, hs, fuel) ==
  IF remainingWorkingDays > 1
    THEN IF fuel = 0 THEN Null
         ELSE LET d == currentDate - 1
              IN  ordersBackLoop(d, IF ordersIsHoliday(d, hs) THEN remainingWorkingDays
                                    ELSE remainingWorkingDays - 1, hs, fuel - 1)
    ELSE currentDate

\* OrdersTable.updateStartDate: the start date it stores in the edited task.
ordersUpdateStartDate(endDate, workingDays, hs) ==
  IF workingDays = 1 THEN endDate
  ELSE ordersBackLoop(endDate, workingDays, hs, MaxWalk)

RECURSIVE maxStartLoop(_, _, _, _)
maxStartLoop(maxDate, remainingWorkingDays, hs, fuel) ==
  IF remainingWorkingDays > 0
    THEN IF fuel = 0 THEN Null
         ELSE LET d == maxDate - 1
              IN  maxStartLoop(d, IF isHoliday(d, hs) THEN remainingWorkingDays
                                  ELSE remainingWorkingDays - 1, hs, fuel - 1)
    ELSE maxDate

RECURSIVE moveLoop(_, _, _, _)
moveLoop(currentDate, remainingWorkingDays, hs, fuel) ==
  IF remainingWorkingDays > 0
    THEN IF fuel = 0 THEN Null
         ELSE LET d == currentDate + 1
              IN  moveLoop(d, IF isHoliday(d, hs) THEN remainingWorkingDays
                              ELSE remainingWorkingDays - 1, hs, fuel - 1)
    ELSE currentDate

\* CalendarWithTasks.moveTaskToDate: the end date computed for a new start date.
moveEndDate(date, workingDays, hs) == moveLoop(date, workingDays - 1, hs, MaxWalk)

RECURSIVE ordersMoveLoop(_, _, _, _)
ordersMoveLoop(currentDate, remainingWorkingDays, hs, fuel) ==
  IF remainingWorkingDays > 0
    THEN IF fuel = 0 THEN Null
         ELSE LET d == currentDate + 1
              IN  ordersMoveLoop(d, IF ordersIsHoliday(d, hs) THEN remainingWorkingDays
                                    ELSE remainingWorkingDays - 1, hs, fuel - 1)
    ELSE currentDate

\* OrdersTable.moveTaskToDate: the end date computed for a new start date.
ordersMoveEndDate(date, workingDays, hs) ==
  ordersMoveLoop(date, workingDays - 1, hs, MaxWalk)

\* getHolidayDatesInRange scanning with the OrdersTable classifier.
getHolidayDatesInRangeOrders(startDate, endDate, hs) ==
  {d \in startDate..endDate : ordersIsHoliday(d, hs)}

\* ---------------------------------------------------- holiday-date scans
\* CalendarWithTasks module-level getHolidayDatesInRange (a list without
\* repeats, in date order: its set of dates).
RECURSIVE scanLoop(_, _, _)
scanLoop(currentDate, endDate, hs) ==
  IF currentDate <= endDate
    THEN (IF isHoliday(currentDate, hs) THEN {currentDate} ELSE {})
           \cup scanLoop(currentDate + 1, endDate, hs)
    ELSE {}

getHolidayDatesInRange(startDate, endDate, hs) == scanLoop(startDate, endDate, hs)

\* TaskPanel.getHolidayDatesInRange: the same loop over the TaskPanel
\* classifier.
RECURSIVE panelScanLoop(_, _, _)
panelScanLoop(currentDate, endDate, hs) ==
  IF currentDate <= endDate
    THEN (IF panelIsHoliday(currentDate, hs) THEN {currentDate} ELSE {})
           \cup panelScanLoop(currentDate + 1, endDate, hs)
    ELSE {}

panelGetHolidayDatesInRange(startDate, endDate, hs) ==
  panelScanLoop(startDate, endDate, hs)

\* OrdersTable.getHolidayDatesInRange: its while loop over the range, which
\* classifies each day with the OrdersTable classifier.
RECURSIVE ordersScanLoop(_, _, _)
ordersScanLoop(currentDate, endDate, hs) ==
  IF currentDate <= endDate
    THEN (IF ordersIsHoliday(currentDate, hs) THEN {currentDate} ELSE {})
           \cup ordersScanLoop(currentDate + 1, endDate, hs)
    ELSE {}

ordersGetHolidayDatesInRange(startDate, endDate, hs) ==
  IF startDate = Null \/ endDate = Null THEN {}
  ELSE ordersScanLoop(startDate, endDate, hs)

\* Navigation.getHolidayDatesInRange: its inner classifier, which has no
\* exception step and reads no start_from.
navIsHoliday(date, hs) ==
  LET dayOfWeek == getDay(date)
  IN  \E h \in hs :
        IF h.holiday_type = "specific_date" /\ h.specific_date # Null
          THEN h.specific_date = date
        ELSE IF h.holiday_type = "day_of_week" /\ h.day_of_week # Null
          THEN h.day_of_week = dayOfWeek
        ELSE FALSE

RECURSIVE navScanLoop(_, _, _)
navScanLoop(currentDate, endDate, hs) ==
  IF currentDate <= endDate
    THEN (IF navIsHoliday(currentDate, hs) THEN {currentDate} ELSE {})
           \cup navScanLoop(currentDate + 1, endDate, hs)
    ELSE {}

\* Navigation.getHolidayDatesInRange
navGetHolidayDatesInRange(startDate, endDate, hs) ==
  IF hs = {} THEN {} ELSE navScanLoop(startDate, endDate, hs)

\* Navigation.createNewTask: the holiday_dates it inserts for the task.
createNewTask(startDate, endDate, hs) == navGetHolidayDatesInRange(startDate, endDate, hs)

\* Non-holiday dates of an inclusive range under the canonical classifier.
WorkingDatesIn(from, to, hs) == {d \in from..to : ~isHoliday(d, hs)}

\* ================================================================== state
VARIABLES
  \* a call of one of the pure helpers: its arguments, the helper, its value
  argHolidays, argDate, argDays, call, result,
  \* the "holidays" table, the clock, and the createHoliday calls in flight
  db, nextHolidayId, today, createPc,
  \* the "tasks" table
  tasksDb,
  \* CalendarWithTasks component state
  mountPc, tasks, holidays,
  tasksWithOutdatedHolidayDates, datesWithCancelledHolidays,
  datesWithNewHolidays, tasksAffectedByNewHolidays, lastOp,
  \* OrdersPage / OrdersTable state of a second browser session
  ordersPc, ordersTasks, ordersHolidays,
  \* HolidayForm state of each session's "Add Working Day" dialog
  workingDayForm,
  \* auth.ts: Date.now(), the rate-limit map, the calls awaiting the stored
  \* hash, the value last returned and localStorage's auth_expiry
  nowMs, loginAttempts, pendingLogins, authResult, authExpiry

argVars == <<argHolidays, argDate, argDays, call, result>>
authVars == <<nowMs, loginAttempts, pendingLogins, authResult, authExpiry>>
storeVars == <<db, nextHolidayId, today, createPc>>
calVars == <<mountPc, tasks, holidays,
             tasksWithOutdatedHolidayDates, datesWithCancelledHolidays,
             datesWithNewHolidays, tasksAffectedByNewHolidays, lastOp>>
ordersVars == <<ordersPc, ordersTasks, ordersHolidays>>
vars == <<argHolidays, argDate, argDays, call, result,
          db, nextHolidayId, today, createPc, tasksDb,
          mountPc, tasks, holidays,
          tasksWithOutdatedHolidayDates, datesWithCancelledHolidays,
          datesWithNewHolidays, tasksAffectedByNewHolidays, lastOp,
          ordersPc, ordersTasks, ordersHolidays, workingDayForm,
          nowMs, loginAttempts, pendingLogins, authResult, authExpiry>>

\* ------------------------------------------------- bounds of the system
\* The day the clock shows at the start, and the last day it advances to.
FirstDay == 5
LastDay == 6
\* Holiday forms are submitted for the dates FirstDay..FirstDay+FormSpan.
FormSpan == 0
\* Rows the holidays table takes before createHoliday is no longer called.
MaxHolidayRows == 2
\* Browser sessions that call createHoliday.
NumClients == 2

Clients == 1..NumClients
FormDates == FirstDay..(FirstDay + FormSpan)

\* HolidayFormData as HolidayForm submits it (the name is always filled in;
\* start_from is left to createHoliday's default).
HolidayFormData(type, specific_date, day_of_week) ==
  [holiday_type |-> type, specific_date |-> specific_date, day_of_week |-> day_of_week]

Forms ==
  {HolidayFormData(ty, d, Null) :
     ty \in {"specific_date", "exception"}, d \in FormDates \cup {Null}}
    \cup {HolidayFormData("day_of_week", Null, getDay(d)) : d \in FormDates}

Idle == [pc |-> "idle", day_of_week |-> Null]

\* ----------------------------------------------------- holidays table
\* hasActiveRecurringHoliday: the rows its query returns.
hasActiveRecurringHoliday(rows) ==
  {h \in rows : ~h.cancelled /\ h.holiday_type = "day_of_week"}

\* getActiveAndFutureHolidays without its .eq("cancelled", false) filter.
getActiveAndFutureHolidaysUnfiltered(rows, now) ==
  {h \in rows : \/ (h.specific_date # Null /\ h.specific_date >= now)
                \/ h.holiday_type = "day_of_week"}

\* getActiveAndFutureHolidays: the rows its query returns on day `now`.
getActiveAndFutureHolidays(rows, now) ==
  {h \in rows : /\ ~h.cancelled
                /\ \/ (h.specific_date # Null /\ h.specific_date >= now)
                   \/ h.holiday_type = "day_of_week"}

InFlight == Cardinality({c \in Clients : createPc[c].pc # "idle"})

\* createHoliday up to its first effect: validation, the recurring-holiday
\* check (whose query may fail), and for the other types the insert.
CreateHoliday(c, f) ==
  /\ createPc[c].pc = "idle"
  /\ nextHolidayId + InFlight <= MaxHolidayRows
  /\ IF f.holiday_type # "day_of_week" /\ f.specific_date = Null
       THEN UNCHANGED <<db, nextHolidayId, createPc>>
     ELSE IF f.holiday_type = "day_of_week"
       THEN /\ \E querySucceeds \in BOOLEAN :
                 IF querySucceeds /\ hasActiveRecurringHoliday(db) # {}
                   THEN UNCHANGED createPc
                   ELSE createPc' = [createPc EXCEPT
                                       ![c] = [pc |-> "insert", day_of_week |-> f.day_of_week]]
            /\ UNCHANGED <<db, nextHolidayId>>
     ELSE /\ db' = db \cup
                {Holiday(nextHolidayId, f.holiday_type, f.specific_date, Null,
                         IF f.holiday_type = "specific_date" THEN f.specific_date ELSE Null,
                         FALSE)}
          /\ nextHolidayId' = nextHolidayId + 1
          /\ UNCHANGED createPc
  /\ UNCHANGED <<today, tasksDb, argVars, workingDayForm, authVars, ordersVars, calVars>>

\* createHoliday for a day_of_week rule, from the check's return to the insert.
CreateHolidayInsert(c) ==
  /\ createPc[c].pc = "insert"
  /\ db' = db \cup {Holiday(nextHolidayId, "day_of_week", Null, createPc[c].day_of_week,
                            today, FALSE)}
  /\ nextHolidayId' = nextHolidayId + 1
  /\ createPc' = [createPc EXCEPT ![c] = Idle]
  /\ UNCHANGED <<today, tasksDb, argVars, workingDayForm, authVars, ordersVars, calVars>>

\* cancelHoliday without its check for past specific dates.
cancelHolidayIncludingPast(rows, id, now) ==
  IF \E h \in rows : h.id = id
    THEN LET data == CHOOSE h \in rows : h.id = id
         IN  (rows \ {data})
               \cup {[data EXCEPT !.cancelled = TRUE, !.cancelled_date = now]}
    ELSE rows

cancelHoliday(rows, id, now) ==
  IF \E h \in rows : h.id = id
    THEN LET data == CHOOSE h \in rows : h.id = id
         IN  IF /\ data.holiday_type = "specific_date"
                /\ data.specific_date # Null
                /\ data.specific_date < now
               THEN rows
               ELSE (rows \ {data})
                      \cup {[data EXCEPT !.cancelled = TRUE, !.cancelled_date = now]}
    ELSE rows

CancelHoliday(id) ==
  /\ \E h \in db : h.id = id
  /\ db' = cancelHoliday(db, id, today)
  /\ UNCHANGED <<nextHolidayId, today, createPc, tasksDb, argVars, workingDayForm, authVars, ordersVars, calVars>>

clearCancelledHolidays(rows) == {h \in rows : ~h.cancelled}

ClearCancelledHolidays ==
  /\ db' = clearCancelledHolidays(db)
  /\ UNCHANGED <<nextHolidayId, today, createPc, tasksDb, argVars, workingDayForm, authVars, ordersVars, calVars>>

\* ------------------------------------- HolidayForm in "workingday" mode
\* The form as the dialog opens it: no date picked, isDateHolidayResult null.
NewForm == [specific_date |-> Null, isDateHolidayResult |-> "null", isCheckingDate |-> FALSE]

\* handleDateChange for a date the picker offers (today or later), and the
\* start of the effect that checks the date: the earlier result stays in
\* isDateHolidayResult until the check returns.
FormSelectDate(c, date) ==
  /\ date >= today
  /\ workingDayForm' = [workingDayForm EXCEPT ![c].specific_date = date,
                                               ![c].isCheckingDate = TRUE]
  /\ UNCHANGED <<storeVars, tasksDb, argVars, authVars, calVars, ordersVars>>

\* isDateHoliday returns to the effect (either of its queries may have
\* failed), or the call throws and the result is left as it was.
FormCheckReturns(c) ==
  /\ workingDayForm[c].isCheckingDate
  /\ \E thrown \in BOOLEAN, specificError \in BOOLEAN, recurringError \in BOOLEAN :
       workingDayForm' =
         [workingDayForm EXCEPT
            ![c].isCheckingDate = FALSE,
            ![c].isDateHolidayResult =
               IF thrown THEN workingDayForm[c].isDateHolidayResult
               ELSE IF isDateHoliday(db, workingDayForm[c].specific_date,
                                     specificError, recurringError).isHoliday
                 THEN "true" ELSE "false"]
  /\ UNCHANGED <<storeVars, tasksDb, argVars, authVars, calVars, ordersVars>>

\* handleSubmit in "workingday" mode, the submit button being enabled: it
\* returns when isDateHolidayResult is false and calls createHoliday with an
\* exception for the date otherwise; on success the dialog closes.
FormSubmit(c) ==
  /\ createPc[c].pc = "idle"
  /\ workingDayForm[c].isDateHolidayResult # "false"
  /\ nextHolidayId + InFlight <= MaxHolidayRows
  /\ IF workingDayForm[c].specific_date = Null
       THEN UNCHANGED <<db, nextHolidayId, workingDayForm>>
       ELSE /\ db' = db \cup {Holiday(nextHolidayId, "exception",
                                      workingDayForm[c].specific_date, Null, Null, FALSE)}
            /\ nextHolidayId' = nextHolidayId + 1
            /\ workingDayForm' = [workingDayForm EXCEPT ![c] = NewForm]
  /\ UNCHANGED <<today, createPc, tasksDb, argVars, authVars, calVars, ordersVars>>

\* ------------------------------------------------------------ auth.ts
MAX_ATTEMPTS == 5
TIMEOUT_DURATION == 15 * 60 * 1000

\* Callers' addresses; "unknown" is the default of the ipAddress parameter.
IpAddresses == {"unknown", "10.0.0.7"}

\* The clock is read at multiples of ClockStepMs, up to MaxClockSteps of them.
ClockStepMs == 5 * 60 * 1000
MaxClockSteps == 4
\* Calls that may be awaiting the stored hash at once.
MaxPending == 1

NoResult == [ipAddress |-> "none", outcome |-> "none"]
\* auth_expiry as the instant it was computed from and what was added to it.
NoExpiry == [from |-> Null, addDays |-> 0, addHours |-> 0]

InitAuth ==
  /\ nowMs = 0
  /\ loginAttempts = <<>>
  /\ pendingLogins = EmptyBag
  /\ authResult = NoResult
  /\ authExpiry = NoExpiry

\* Time passes between two calls.
ClockAdvance ==
  /\ nowMs < MaxClockSteps * ClockStepMs
  /\ nowMs' = nowMs + ClockStepMs
  /\ UNCHANGED <<loginAttempts, pendingLogins, authResult, authExpiry>>
  /\ UNCHANGED <<storeVars, tasksDb, argVars, calVars, ordersVars, workingDayForm>>

\* The rate-limit test with the block ending as soon as TIMEOUT_DURATION
\* has passed.
isRateLimitedUntilTimeout(attempts, now) ==
  /\ ~(now - attempts.lastAttempt >= TIMEOUT_DURATION)
  /\ attempts.count >= MAX_ATTEMPTS

\* The branch of verifyPasscode that blocks the request.
isRateLimited(attempts, now) ==
  /\ ~(now - attempts.lastAttempt > TIMEOUT_DURATION)
  /\ attempts.count >= MAX_ATTEMPTS

\* The entry verifyPasscode sets for a request it does not block.
countedAttempt(attempts, now) ==
  IF now - attempts.lastAttempt > TIMEOUT_DURATION
    THEN [count |-> 1, lastAttempt |-> now]
    ELSE [count |-> attempts.count + 1, lastAttempt |-> now]

MapSet(map, key, value) == [k \in DOMAIN map \cup {key} |-> IF k = key THEN value ELSE map[k]]
MapDelete(map, key) == [k \in DOMAIN map \ {key} |-> map[k]]

\* verifyPasscode up to its first await: the rate-limit check and the count.
VerifyPasscode(passcodeMatches, rememberMe, ipAddress) ==
  /\ IF ipAddress \in DOMAIN loginAttempts /\ isRateLimited(loginAttempts[ipAddress], nowMs)
       THEN /\ authResult' = [ipAddress |-> ipAddress, outcome |-> "rateLimited"]
            /\ UNCHANGED <<loginAttempts, pendingLogins>>
       ELSE /\ BagCardinality(pendingLogins) < MaxPending
            /\ loginAttempts' =
                 MapSet(loginAttempts, ipAddress,
                        IF ipAddress \in DOMAIN loginAttempts
                          THEN countedAttempt(loginAttempts[ipAddress], nowMs)
                          ELSE [count |-> 1, lastAttempt |-> nowMs])
            /\ pendingLogins' = pendingLogins (+) SetToBag(
                 {[ipAddress |-> ipAddress, passcodeMatches |-> passcodeMatches,
                   rememberMe |-> rememberMe]})
            /\ UNCHANGED authResult
  /\ UNCHANGED <<nowMs, authExpiry>>
  /\ UNCHANGED <<storeVars, tasksDb, argVars, calVars, ordersVars, workingDayForm>>

\* verifyPasscode from the fetch of the stored hash to its return: the fetch
\* may fail; a matching passcode deletes the caller's entry and stores the
\* token's expiry (24 hours from now, or 30 days with rememberMe).
VerifyPasscodeCompare(login) ==
  /\ BagIn(login, pendingLogins)
  /\ pendingLogins' = pendingLogins (-) SetToBag({login})
  /\ \E fetchError \in BOOLEAN :
       IF fetchError
         THEN /\ authResult' = [ipAddress |-> login.ipAddress, outcome |-> "Authentication error"]
              /\ UNCHANGED <<loginAttempts, authExpiry>>
       ELSE IF login.passcodeMatches
         THEN /\ loginAttempts' = MapDelete(loginAttempts, login.ipAddress)
              /\ authExpiry' = IF login.rememberMe
                                 THEN [from |-> nowMs, addDays |-> 30, addHours |-> 0]
                                 ELSE [from |-> nowMs, addDays |-> 0, addHours |-> 24]
              /\ authResult' = [ipAddress |-> login.ipAddress, outcome |-> "success"]
         ELSE /\ authResult' = [ipAddress |-> login.ipAddress, outcome |-> "Invalid passcode"]
              /\ UNCHANGED <<loginAttempts, authExpiry>>
  /\ UNCHANGED nowMs
  /\ UNCHANGED <<storeVars, tasksDb, argVars, calVars, ordersVars, workingDayForm>>

PendingCalls == [ipAddress : IpAddresses, passcodeMatches : BOOLEAN, rememberMe : BOOLEAN]

NextAuth ==
  \/ ClockAdvance
  \/ \E passcodeMatches \in BOOLEAN, rememberMe \in BOOLEAN, ipAddress \in IpAddresses :
       VerifyPasscode(passcodeMatches, rememberMe, ipAddress)
  \/ \E login \in PendingCalls : VerifyPasscodeCompare(login)

\* Midnight passes.
AdvanceDay ==
  /\ today < LastDay
  /\ today' = today + 1
  /\ UNCHANGED <<db, nextHolidayId, createPc, tasksDb, argVars, workingDayForm, authVars, ordersVars, calVars>>

\* ------------------------------------------------------- tasks table
\* validateTaskDuration's limit on the calendar days a task spans.
MaxDurationDays == 30
\* End dates picked in the panel and start dates picked in move mode lie in
\* FirstDay-1 .. FirstDay+PickSpan.
PickSpan == 2

PickDates == (FirstDay - 1)..(FirstDay + PickSpan)
\* Largest working-day count typed into the panel or the orders table.
MaxTypedDays == 2
TypedDayCounts == 1..MaxTypedDays

Task(id, startDate, endDate, dueDate, daysToComplete, holidayDates, status) ==
  [id |-> id, startDate |-> startDate, endDate |-> endDate, dueDate |-> dueDate,
   daysToComplete |-> daysToComplete, holidayDates |-> holidayDates, status |-> status]

\* statusOptions: the first and the last of them.
StatusOptions == {"New", "Completed"}

\* The tasks table at the start: one two-day task created while the holidays
\* table was empty, so that its stored holiday_dates is the empty list.
SeedTasks == {Task(1, FirstDay, FirstDay + 1, FirstDay + 2, 2, {}, "New")}

differenceInDays(end, start) == IF end >= start THEN end - start ELSE start - end

validateTaskDuration(startDate, endDate) ==
  ~(differenceInDays(endDate, startDate) + 1 > MaxDurationDays)

\* ------------------------------------------- CalendarWithTasks component
NoOp == [op |-> "none", id |-> 0]

outdatedDatesOf(task, hs) == {c \in task.holidayDates : ~isHoliday(c, hs)}

\* checkForOutdatedHolidayDates: the two sets it leaves in component state,
\* given the sets `prev` that were there.
checkForOutdatedHolidayDates(ts, hs, prev) ==
  IF ts = {} \/ hs = {} THEN prev
  ELSE [tasks |-> {t.id : t \in {u \in ts : outdatedDatesOf(u, hs) # {}}},
        dates |-> UNION {outdatedDatesOf(t, hs) : t \in ts}]

\* checkForNewHolidays with `currentDate < taskEnd` as its loop condition:
\* the scan stops before the task's end date.
RECURSIVE newHolidayLoopBeforeEnd(_, _, _, _)
newHolidayLoopBeforeEnd(currentDate, taskEnd, task, hs) ==
  IF currentDate < taskEnd
    THEN (IF isHoliday(currentDate, hs) /\ currentDate \notin task.holidayDates
            THEN {currentDate} ELSE {})
           \cup newHolidayLoopBeforeEnd(currentDate + 1, taskEnd, task, hs)
    ELSE {}

\* checkForNewHolidays: the while loop over one task's date range.
RECURSIVE newHolidayLoop(_, _, _, _)
newHolidayLoop(currentDate, taskEnd, task, hs) ==
  IF currentDate <= taskEnd
    THEN (IF isHoliday(currentDate, hs) /\ currentDate \notin task.holidayDates
            THEN {currentDate} ELSE {})
           \cup newHolidayLoop(currentDate + 1, taskEnd, task, hs)
    ELSE {}

\* checkForNewHolidays: the dates it adds for one task.
newHolidayDatesOf(task, hs) ==
  IF task.status = "Completed" THEN {}
  ELSE newHolidayLoop(task.startDate, task.endDate, task, hs)

\* checkForNewHolidays: the two sets it leaves in component state, given the
\* sets `prev` that were there.
checkForNewHolidays(ts, hs, prev) ==
  IF ts = {} \/ hs = {} THEN prev
  ELSE [tasks |-> {t.id : t \in {u \in ts : newHolidayDatesOf(u, hs) # {}}},
        dates |-> UNION {newHolidayDatesOf(t, hs) : t \in ts}]

\* The effects that re-run when `tasks` or `holidays` is set.
RunEffects(ts, hs) ==
  LET r == checkForOutdatedHolidayDates(ts, hs,
             [tasks |-> tasksWithOutdatedHolidayDates,
              dates |-> datesWithCancelledHolidays])
      n == checkForNewHolidays(ts, hs,
             [tasks |-> tasksAffectedByNewHolidays, dates |-> datesWithNewHolidays])
  IN  /\ tasksWithOutdatedHolidayDates' = r.tasks
      /\ datesWithCancelledHolidays' = r.dates
      /\ tasksAffectedByNewHolidays' = n.tasks
      /\ datesWithNewHolidays' = n.dates

\* The calendar page is opened (or reloaded): fresh component state.
Mount ==
  /\ mountPc' = "fetchTasks"
  /\ tasks' = {}
  /\ holidays' = {}
  /\ tasksWithOutdatedHolidayDates' = {}
  /\ datesWithCancelledHolidays' = {}
  /\ datesWithNewHolidays' = {}
  /\ tasksAffectedByNewHolidays' = {}
  /\ lastOp' = NoOp
  /\ UNCHANGED <<storeVars, tasksDb, argVars, workingDayForm, authVars, ordersVars>>

\* fetchTasks: the first load and every later refresh.
FetchTasks ==
  /\ mountPc # "unmounted"
  /\ tasks' = IF tasksDb # {} THEN tasksDb ELSE tasks
  /\ mountPc' = IF mountPc = "fetchTasks" THEN "fetchHolidays" ELSE mountPc
  /\ RunEffects(tasks', holidays)
  /\ lastOp' = NoOp
  /\ UNCHANGED <<holidays, storeVars, tasksDb, argVars, workingDayForm, authVars, ordersVars>>

\* fetchHolidays followed by a rewrite of every task's cached holiday dates
\* under the rules just loaded, in the list and in the tasks table.
FetchHolidaysAndRepair ==
  /\ mountPc = "fetchHolidays"
  /\ holidays' = getActiveAndFutureHolidays(db, today)
  /\ tasks' = {[t EXCEPT !.holidayDates =
                            getHolidayDatesInRange(t.startDate, t.endDate, holidays')] :
                 t \in tasks}
  /\ tasksDb' = IF tasks = {} THEN tasksDb ELSE tasks'
  /\ mountPc' = "ready"
  /\ RunEffects(tasks', holidays')
  /\ lastOp' = NoOp
  /\ UNCHANGED <<storeVars, argVars, workingDayForm, authVars, ordersVars>>

\* fetchHolidays: called once, after the first fetchTasks; the query may fail.
FetchHolidays ==
  /\ mountPc = "fetchHolidays"
  /\ \E success \in BOOLEAN :
       holidays' = IF success THEN getActiveAndFutureHolidays(db, today) ELSE holidays
  /\ mountPc' = "ready"
  /\ RunEffects(tasks, holidays')
  /\ lastOp' = NoOp
  /\ UNCHANGED <<tasks, storeVars, tasksDb, argVars, workingDayForm, authVars, ordersVars>>

\* The record saveTask stores for an edited task.
saveTask(updatedTask, hs) ==
  [updatedTask EXCEPT
     !.holidayDates = getHolidayDatesInRange(updatedTask.startDate, updatedTask.endDate, hs)]

\* The panel's edit of end date and working days and its status select, then
\* TaskPanel.handleSave, proceedWithSave and the calendar's saveTask.
\* edit = FALSE leaves the dates as the task was opened.
SaveTask(t, edit, endDate, days, status) ==
  /\ mountPc # "unmounted"
  /\ t \in tasks
  /\ LET startDate == IF edit THEN updateStartDate(endDate, days, holidays) ELSE t.startDate
         editingTask ==
           IF edit
             THEN Task(t.id, startDate, endDate,
                       IF endDate > t.dueDate THEN endDate ELSE t.dueDate, days,
                       t.holidayDates, status)
             ELSE [t EXCEPT !.status = status]
     IN  /\ startDate # Null
         /\ IF editingTask.endDate > editingTask.dueDate
               \/ ~validateTaskDuration(editingTask.startDate, editingTask.endDate)
              THEN UNCHANGED <<tasks, tasksDb, lastOp,
                               tasksWithOutdatedHolidayDates, datesWithCancelledHolidays,
                               datesWithNewHolidays, tasksAffectedByNewHolidays>>
              ELSE LET finalTask == saveTask(editingTask, holidays)
                   IN  /\ tasksDb' = {IF u.id = t.id THEN finalTask ELSE u : u \in tasksDb}
                       /\ tasks' = {IF u.id = t.id THEN finalTask ELSE u : u \in tasks}
                       /\ RunEffects(tasks', holidays)
                       /\ lastOp' = [op |-> "save", id |-> t.id]
  /\ UNCHANGED <<mountPc, holidays, storeVars, argVars, workingDayForm, authVars, ordersVars>>

\* moveTaskToDate: the working-day count it walks with.
moveWorkingDays(task) ==
  IF task.daysToComplete # 0 THEN task.daysToComplete
  ELSE differenceInDays(task.endDate, task.startDate) + 1

\* moveTaskToDate with its due-date check removed: only the duration
\* validation returns early.
moveRefusedByDurationOnly(task, date, hs) ==
  ~validateTaskDuration(date, moveEndDate(date, moveWorkingDays(task), hs))

\* moveTaskToDate: whether it returns before changing anything.
moveRefused(task, date, hs) ==
  LET newEndDate == moveEndDate(date, moveWorkingDays(task), hs)
  IN  ~validateTaskDuration(date, newEndDate) \/ newEndDate > task.dueDate

\* moveTaskToDate: the toast it shows when it returns early.
moveToast(task, date, hs) ==
  IF ~validateTaskDuration(date, moveEndDate(date, moveWorkingDays(task), hs))
    THEN "Validation Error"
    ELSE "Cannot Move Task"

\* moveTaskToDate: the record it stores when the move is not refused.
moveTaskToDate(task, date, hs) ==
  LET workingDays == moveWorkingDays(task)
      newEndDate == moveEndDate(date, workingDays, hs)
  IN  Task(task.id, date, newEndDate, task.dueDate, workingDays,
           getHolidayDatesInRange(date, newEndDate, hs), task.status)

\* moveTaskToDate: the stored row after its update, which writes start_date,
\* end_date, holiday_dates and days_to_complete and no other column.
moveUpdateData(row, updatedTask) ==
  [row EXCEPT !.startDate = updatedTask.startDate,
              !.endDate = updatedTask.endDate,
              !.holidayDates = updatedTask.holidayDates,
              !.daysToComplete = updatedTask.daysToComplete]

\* handleTaskClick: the maximum start date it stores for the task selected.
maxStartDateOf(task, hs) ==
  maxStartLoop(task.dueDate, task.daysToComplete - 1, hs, MaxWalk)

\* isAfterMaxStartDate. Its last line hands the "yyyy-MM-dd" string to
\* date-fns isAfter, which compares with the date the string stands for when
\* the installed date-fns parses strings (stringParsed) and with an Invalid
\* Date, so answering false, when it does not.
isAfterMaxStartDate(date, maxStartDate, stringParsed) ==
  IF maxStartDate = Null THEN FALSE
  ELSE IF date = maxStartDate THEN FALSE
  ELSE stringParsed /\ date > maxStartDate

\* handleTaskClick selects a task in move mode unless it is Completed and
\* stores its maximum start date; handleDateClick then refuses the date
\* clicked when isAfterMaxStartDate says so, and calls moveTaskToDate with it
\* otherwise.
MoveTaskToDate(t, date) ==
  /\ mountPc # "unmounted"
  /\ t \in tasks
  /\ t.status # "Completed"
  /\ maxStartDateOf(t, holidays) # Null
  /\ \E stringParsed \in BOOLEAN :
       IF isAfterMaxStartDate(date, maxStartDateOf(t, holidays), stringParsed)
         THEN /\ lastOp' = [op |-> "Invalid Date", id |-> t.id]
              /\ UNCHANGED <<tasks, tasksDb,
                             tasksWithOutdatedHolidayDates, datesWithCancelledHolidays,
                             datesWithNewHolidays, tasksAffectedByNewHolidays>>
         ELSE /\ moveEndDate(date, moveWorkingDays(t), holidays) # Null
              /\ IF moveRefused(t, date, holidays)
                   THEN /\ lastOp' = [op |-> moveToast(t, date, holidays), id |-> t.id]
                        /\ UNCHANGED <<tasks, tasksDb,
                                       tasksWithOutdatedHolidayDates,
                                       datesWithCancelledHolidays,
                                       datesWithNewHolidays, tasksAffectedByNewHolidays>>
                   ELSE LET updatedTask == moveTaskToDate(t, date, holidays)
                        IN  /\ tasks' = {IF u.id = t.id THEN updatedTask ELSE u : u \in tasks}
                            /\ tasksDb' = {IF u.id = t.id THEN moveUpdateData(u, updatedTask)
                                            ELSE u : u \in tasksDb}
                            /\ RunEffects(tasks', holidays)
                            /\ lastOp' = [op |-> "move", id |-> t.id]
  /\ UNCHANGED <<mountPc, holidays, storeVars, argVars, workingDayForm, authVars, ordersVars>>

\* recalculateHolidayCount adding the dates it finds to the cached ones
\* instead of replacing them.
recalculateHolidayCountMerging(task, hs) ==
  [task EXCEPT !.holidayDates =
     task.holidayDates \cup getHolidayDatesInRange(task.startDate, task.endDate, hs)]

\* recalculateHolidayCount: the task it puts in the list.
recalculateHolidayCount(task, hs) ==
  [task EXCEPT !.holidayDates = getHolidayDatesInRange(task.startDate, task.endDate, hs)]

RecalculateHolidayCount(t) ==
  /\ mountPc # "unmounted"
  /\ t \in tasks
  /\ LET updatedTask == recalculateHolidayCount(t, holidays)
     IN  /\ tasksDb' = {IF u.id = t.id
                          THEN [u EXCEPT !.holidayDates = updatedTask.holidayDates]
                          ELSE u : u \in tasksDb}
         /\ tasks' = {IF u.id = t.id THEN updatedTask ELSE u : u \in tasks}
         /\ RunEffects(tasks', holidays)
         /\ lastOp' = [op |-> "recalculate", id |-> t.id]
  /\ UNCHANGED <<mountPc, holidays, storeVars, argVars, workingDayForm, authVars, ordersVars>>

\* "Auto-Fix & Save": the start date it computes by walking back from the
\* end date until daysToComplete working days are found.
autoFixStartDate(endDate, daysToComplete, hs) ==
  panelBackLoop(endDate, daysToComplete - 1, hs, MaxWalk)

\* The three "Auto-Fix & Save" buttons of the panel, shown for a task that
\* the new-holiday check reported or whose cache the panel finds outdated;
\* each passes the task with its new start date to saveTask.
AutoFixAndSave(t) ==
  /\ mountPc # "unmounted"
  /\ t \in tasks
  /\ \/ t.id \in tasksAffectedByNewHolidays
     \/ (holidays # {} /\ outdatedDatesOf(t, holidays) # {})
  /\ LET startDate == autoFixStartDate(t.endDate, t.daysToComplete, holidays)
         updatedTask ==
           [t EXCEPT !.startDate = startDate,
                     !.holidayDates =
                        panelGetHolidayDatesInRange(startDate, t.endDate, holidays)]
         finalTask == saveTask(updatedTask, holidays)
     IN  /\ startDate # Null
         /\ tasksDb' = {IF u.id = t.id THEN finalTask ELSE u : u \in tasksDb}
         /\ tasks' = {IF u.id = t.id THEN finalTask ELSE u : u \in tasks}
         /\ RunEffects(tasks', holidays)
         /\ lastOp' = [op |-> "autoFix", id |-> t.id]
  /\ UNCHANGED <<mountPc, holidays, storeVars, argVars, workingDayForm, authVars, ordersVars>>

\* ------------------------------------------------ OrdersPage, OrdersTable
\* The orders page is opened (or reloaded) in a second browser session.
OrdersMount ==
  /\ ordersPc' = "fetchHolidays"
  /\ ordersTasks' = {}
  /\ ordersHolidays' = {}
  /\ UNCHANGED <<storeVars, tasksDb, argVars, workingDayForm, authVars, calVars>>

\* OrdersPage.fetchTasks: on mount and on every task-created / tasks-updated
\* event; a failed query leaves the list as it was.
OrdersFetchTasks ==
  /\ ordersPc # "unmounted"
  /\ \E success \in BOOLEAN :
       ordersTasks' = IF success THEN tasksDb ELSE ordersTasks
  /\ UNCHANGED <<ordersPc, ordersHolidays, storeVars, tasksDb, argVars, workingDayForm, authVars, calVars>>

\* OrdersPage.fetchHolidays: once per mount; a failed query leaves [].
OrdersFetchHolidays ==
  /\ ordersPc = "fetchHolidays"
  /\ \E success \in BOOLEAN :
       ordersHolidays' = IF success THEN getActiveAndFutureHolidays(db, today)
                         ELSE ordersHolidays
  /\ ordersPc' = "ready"
  /\ UNCHANGED <<ordersTasks, storeVars, tasksDb, argVars, workingDayForm, authVars, calVars>>

\* The row being edited when Save is pressed: startEditing's copy of the
\* task, then the due-date picker (which refuses a date before the end date)
\* and the days input (which stores the count and the start date computed by
\* updateStartDate).
ordersEditingTask(task, dueDate, days, hs) ==
  [task EXCEPT !.dueDate = IF dueDate < task.endDate THEN task.dueDate ELSE dueDate,
               !.daysToComplete = days,
               !.startDate = ordersUpdateStartDate(task.endDate, days, hs)]

\* saveEditing: whether one of its validations returns before the update.
saveEditingRefused(editingTask) ==
  \/ editingTask.endDate > editingTask.dueDate
  \/ editingTask.startDate > editingTask.endDate
  \/ ~validateTaskDuration(editingTask.startDate, editingTask.endDate)

\* saveEditing: the record it writes (every column of the row).
saveEditing(editingTask, daysToComplete, hs) ==
  LET recalculatedStartDate ==
        ordersBackLoop(editingTask.endDate, daysToComplete, hs, MaxWalk)
  IN  [editingTask EXCEPT
         !.startDate = recalculatedStartDate,
         !.holidayDates =
            ordersGetHolidayDatesInRange(recalculatedStartDate, editingTask.endDate, hs),
         !.daysToComplete = IF editingTask.daysToComplete # 0
                              THEN editingTask.daysToComplete ELSE daysToComplete]

\* Inline edit of a row (due date, working days) followed by saveEditing;
\* the database update may fail, and then the list is left as it was.
OrdersSaveEditing(t, dueDate, days) ==
  /\ ordersPc # "unmounted"
  /\ t \in ordersTasks
  /\ LET editingTask == ordersEditingTask(t, dueDate, days, ordersHolidays)
     IN  /\ editingTask.startDate # Null
         /\ IF saveEditingRefused(editingTask)
              THEN UNCHANGED <<tasksDb, ordersTasks>>
              ELSE \E success \in BOOLEAN :
                     IF success
                       THEN LET updatedTask == saveEditing(editingTask, days, ordersHolidays)
                            IN  /\ tasksDb' = {IF u.id = t.id THEN updatedTask ELSE u :
                                                 u \in tasksDb}
                                /\ ordersTasks' = {IF u.id = t.id THEN updatedTask ELSE u :
                                                     u \in ordersTasks}
                       ELSE UNCHANGED <<tasksDb, ordersTasks>>
  /\ UNCHANGED <<ordersPc, ordersHolidays, storeVars, argVars, workingDayForm, authVars, calVars>>

\* ======================================================= specifications
InitSystem ==
  /\ db = {}
  /\ nextHolidayId = 1
  /\ today = FirstDay
  /\ createPc = [c \in Clients |-> Idle]
  /\ tasksDb = SeedTasks
  /\ mountPc = "unmounted"
  /\ tasks = {}
  /\ holidays = {}
  /\ tasksWithOutdatedHolidayDates = {}
  /\ datesWithCancelledHolidays = {}
  /\ datesWithNewHolidays = {}
  /\ tasksAffectedByNewHolidays = {}
  /\ lastOp = NoOp
  /\ ordersPc = "unmounted"
  /\ ordersTasks = {}
  /\ ordersHolidays = {}
  /\ workingDayForm = [c \in Clients |-> NewForm]
  /\ InitAuth

NoCall ==
  /\ argHolidays = {}
  /\ argDate = 0
  /\ argDays = 1
  /\ call = "none"
  /\ result = Null

\* The application: the holidays table with its callers, the clock and the
\* calendar page.
Init == InitSystem /\ NoCall

Next ==
  \/ \E c \in Clients, f \in Forms : CreateHoliday(c, f)
  \/ \E c \in Clients : CreateHolidayInsert(c)
  \/ \E id \in 1..MaxHolidayRows : CancelHoliday(id)
  \/ ClearCancelledHolidays
  \/ AdvanceDay
  \/ Mount
  \/ FetchTasks
  \/ FetchHolidays
  \/ \E t \in tasks, status \in StatusOptions :
       SaveTask(t, FALSE, t.endDate, t.daysToComplete, status)
  \/ \E t \in tasks, endDate \in PickDates, days \in TypedDayCounts,
          status \in StatusOptions :
       SaveTask(t, TRUE, endDate, days, status)
  \/ \E t \in tasks, date \in PickDates : MoveTaskToDate(t, date)
  \/ \E t \in tasks : RecalculateHolidayCount(t)
  \/ \E t \in tasks : AutoFixAndSave(t)

Spec == Init /\ [][Next]_vars

\* ---------------------------------------------- two sessions, one table
\* Holidays tables the task sessions run against: the empty table, and the
\* tables left by one createHoliday call made on FirstDay.
TaskSpecTables ==
  { {},
    {Holiday(1, "specific_date", FirstDay + 1, Null, FirstDay + 1, FALSE)},
    {Holiday(1, "day_of_week", Null, getDay(FirstDay + 1), FirstDay, FALSE)} }

InitTasks ==
  /\ db \in TaskSpecTables
  /\ nextHolidayId = Cardinality(db) + 1
  /\ today = FirstDay
  /\ createPc = [c \in Clients |-> Idle]
  /\ tasksDb = SeedTasks
  /\ mountPc = "unmounted"
  /\ tasks = {}
  /\ holidays = {}
  /\ tasksWithOutdatedHolidayDates = {}
  /\ datesWithCancelledHolidays = {}
  /\ datesWithNewHolidays = {}
  /\ tasksAffectedByNewHolidays = {}
  /\ lastOp = NoOp
  /\ ordersPc = "unmounted"
  /\ ordersTasks = {}
  /\ ordersHolidays = {}
  /\ workingDayForm = [c \in Clients |-> NewForm]
  /\ InitAuth
  /\ NoCall

\* Due dates picked in the orders table.
DuePickDates == FirstDay..(FirstDay + PickSpan)

\* The calendar page used in move mode and the orders page used for inline
\* edits, open in two browser sessions over the same tasks table, with the
\* holidays table left alone.
NextTasks ==
  \/ Mount
  \/ FetchTasks
  \/ FetchHolidays
  \/ \E t \in tasks, date \in PickDates : MoveTaskToDate(t, date)
  \/ OrdersMount
  \/ OrdersFetchTasks
  \/ OrdersFetchHolidays
  \/ \E t \in ordersTasks, dueDate \in DuePickDates, days \in TypedDayCounts :
       OrdersSaveEditing(t, dueDate, days)

SpecTasks == InitTasks /\ [][NextTasks]_vars

\* ------------------------------------------- a fixed table, a moving clock
\* Holidays tables left by createHoliday calls made on FirstDay, none of
\* whose rows is cancelled afterwards.
ClockTables ==
  { {},
    {Holiday(1, "specific_date", FirstDay, Null, FirstDay, FALSE)},
    {Holiday(1, "specific_date", FirstDay + 1, Null, FirstDay + 1, FALSE)},
    {Holiday(1, "specific_date", FirstDay, Null, FirstDay, FALSE),
     Holiday(2, "specific_date", FirstDay + 1, Null, FirstDay + 1, FALSE)},
    {Holiday(1, "day_of_week", Null, getDay(FirstDay), FirstDay, FALSE),
     Holiday(2, "exception", FirstDay, Null, Null, FALSE)},
    {Holiday(1, "day_of_week", Null, getDay(FirstDay + 1), FirstDay, FALSE)} }

\* The task a panel save leaves in the tasks table when it is made with
\* the rules `hs` loaded: end date FirstDay + 1, due date FirstDay + 2.
PanelSavedTask(days, hs) ==
  saveTask(Task(1, updateStartDate(FirstDay + 1, days, hs), FirstDay + 1, FirstDay + 2,
                days, {}, "New"), hs)

\* The tasks table holds one task, saved on FirstDay by a calendar session
\* that had loaded the table as it is; the calendar is closed.
InitClock ==
  /\ db \in ClockTables
  /\ nextHolidayId = Cardinality(db) + 1
  /\ today = FirstDay
  /\ createPc = [c \in Clients |-> Idle]
  /\ \E days \in TypedDayCounts :
       tasksDb = {PanelSavedTask(days, getActiveAndFutureHolidays(db, today))}
  /\ mountPc = "unmounted"
  /\ tasks = {}
  /\ holidays = {}
  /\ tasksWithOutdatedHolidayDates = {}
  /\ datesWithCancelledHolidays = {}
  /\ datesWithNewHolidays = {}
  /\ tasksAffectedByNewHolidays = {}
  /\ lastOp = NoOp
  /\ ordersPc = "unmounted"
  /\ ordersTasks = {}
  /\ ordersHolidays = {}
  /\ workingDayForm = [c \in Clients |-> NewForm]
  /\ InitAuth
  /\ NoCall

\* The calendar page over a holidays table that no one changes, while the
\* days pass.
NextClock ==
  \/ AdvanceDay
  \/ Mount
  \/ FetchTasks
  \/ FetchHolidays
  \/ \E t \in tasks, date \in PickDates : MoveTaskToDate(t, date)
  \/ \E t \in tasks : RecalculateHolidayCount(t)

SpecClock == InitClock /\ [][NextClock]_vars

\* ------------------------------------------------ the holidays page
\* Holidays are added in "holiday" mode, cancelled and cleared while the
\* "Add Working Day" dialog is used.
NextForm ==
  \/ \E c \in Clients, f \in Forms : f.holiday_type # "exception" /\ CreateHoliday(c, f)
  \/ \E c \in Clients : CreateHolidayInsert(c)
  \/ \E id \in 1..MaxHolidayRows : CancelHoliday(id)
  \/ ClearCancelledHolidays
  \/ AdvanceDay
  \/ \E c \in Clients, date \in FormDates \cup {LastDay} : FormSelectDate(c, date)
  \/ \E c \in Clients : FormCheckReturns(c)
  \/ \E c \in Clients : FormSubmit(c)

SpecForm == Init /\ [][NextForm]_vars

SpecAuth == Init /\ [][NextAuth]_vars

\* ------------------------------------------- a task of the longest span
\* The tasks table at the start: one task of MaxDurationDays working days
\* that ends on FirstDay + 1, saved while the holidays table was empty, so
\* that it spans MaxDurationDays calendar days and its cache is empty.
LongTasks ==
  {Task(1, FirstDay + 1 - (MaxDurationDays - 1), FirstDay + 1, FirstDay + 2,
        MaxDurationDays, {}, "New")}

InitLong ==
  /\ db = {}
  /\ nextHolidayId = 1
  /\ today = FirstDay
  /\ createPc = [c \in Clients |-> Idle]
  /\ tasksDb = LongTasks
  /\ mountPc = "unmounted"
  /\ tasks = {}
  /\ holidays = {}
  /\ tasksWithOutdatedHolidayDates = {}
  /\ datesWithCancelledHolidays = {}
  /\ datesWithNewHolidays = {}
  /\ tasksAffectedByNewHolidays = {}
  /\ lastOp = NoOp
  /\ ordersPc = "unmounted"
  /\ ordersTasks = {}
  /\ ordersHolidays = {}
  /\ workingDayForm = [c \in Clients |-> NewForm]
  /\ InitAuth
  /\ NoCall

\* Holidays are created while the calendar page saves, moves and repairs
\* the task.
NextLong ==
  \/ \E c \in Clients, f \in Forms : CreateHoliday(c, f)
  \/ \E c \in Clients : CreateHolidayInsert(c)
  \/ Mount
  \/ FetchTasks
  \/ FetchHolidays
  \/ \E t \in tasks, status \in StatusOptions :
       SaveTask(t, FALSE, t.endDate, t.daysToComplete, status)
  \/ \E t \in tasks, date \in PickDates : MoveTaskToDate(t, date)
  \/ \E t \in tasks : AutoFixAndSave(t)

SpecLong == InitLong /\ [][NextLong]_vars

\* ------------------------------------------ calls of the pure helpers
Call(name, value) ==
  /\ call = "none"
  /\ call' = name
  /\ result' = value
  /\ UNCHANGED <<argHolidays, argDate, argDays, storeVars, workingDayForm, authVars, tasksDb, calVars, ordersVars>>

CallIsHoliday == Call("isHoliday", isHoliday(argDate, argHolidays))
CallPanelIsHoliday == Call("panelIsHoliday", panelIsHoliday(argDate, argHolidays))
CallOrdersIsHoliday == Call("ordersIsHoliday", ordersIsHoliday(argDate, argHolidays))
CallDueDatesIsHoliday == Call("dueDatesIsHoliday", dueDatesIsHoliday(argDate, argHolidays))
\* isDateHoliday is called while the holidays table holds the rows argHolidays.
CallIsDateHoliday ==
  \E specificError \in BOOLEAN, recurringError \in BOOLEAN :
    Call("isDateHoliday", isDateHoliday(argHolidays, argDate, specificError, recurringError))
CallCalculateStartDate ==
  Call("calculateStartDate", calculateStartDate(argDate, argDays, argHolidays))
CallCalculateEndDate ==
  Call("calculateEndDate", calculateEndDate(argDate, argDays, argHolidays))
CallUpdateStartDate ==
  Call("updateStartDate", updateStartDate(argDate, argDays, argHolidays))
CallOrdersUpdateStartDate ==
  Call("ordersUpdateStartDate", ordersUpdateStartDate(argDate, argDays, argHolidays))
CallMoveEndDate == Call("moveEndDate", moveEndDate(argDate, argDays, argHolidays))
CallOrdersMoveEndDate ==
  Call("ordersMoveEndDate", ordersMoveEndDate(argDate, argDays, argHolidays))

\* saveEditing: the start date its own backward walk recomputes.
CallSaveEditingStartDate ==
  Call("saveEditingStartDate", ordersBackLoop(argDate, argDays, argHolidays, MaxWalk))

\* The scans are called for the range of argDays calendar days that starts
\* on argDate.
scanEndDate == argDate + argDays - 1
CallGetHolidayDatesInRange ==
  Call("getHolidayDatesInRange", getHolidayDatesInRange(argDate, scanEndDate, argHolidays))
CallPanelGetHolidayDatesInRange ==
  Call("panelGetHolidayDatesInRange",
       panelGetHolidayDatesInRange(argDate, scanEndDate, argHolidays))
CallOrdersGetHolidayDatesInRange ==
  Call("ordersGetHolidayDatesInRange",
       ordersGetHolidayDatesInRange(argDate, scanEndDate, argHolidays))

\* A task of argDays calendar days that starts on argDate is created from the
\* navigation bar, which holds the rules argHolidays.
CallCreateNewTask ==
  Call("createNewTask", createNewTask(argDate, scanEndDate, argHolidays))

\* ------------------------------------- the panel's Working Days input
\* e.target.value of the number input: the empty string, a text that is no
\* number, or the digits of a whole number.
EmptyInput == [kind |-> "empty", value |-> 0]
TextInput == [kind |-> "text", value |-> 0]
NumberInput(n) == [kind |-> "number", value |-> n]
InputValues == {EmptyInput, TextInput} \cup {NumberInput(n) : n \in -1..MaxWorkingDays}

\* Number.parseInt's NaN
NaN == -2000
parseInt(inputValue) == IF inputValue.kind = "number" THEN inputValue.value ELSE NaN

\* Math.max(1, Number.parseInt(inputValue) || 1)
atLeastOne(inputValue) ==
  LET parsed == parseInt(inputValue)
      orOne == IF parsed = NaN \/ parsed = 0 THEN 1 ELSE parsed
  IN  IF orOne > 1 THEN orOne ELSE 1

\* The input's onChange: the count it passes to handleWorkingDaysChange.
inputDays(inputValue) ==
  IF inputValue.kind = "empty" THEN 0 ELSE atLeastOne(inputValue)

\* handleWorkingDaysChange: the start date it stores; it calls
\* calculateStartDate unless days is 1.
handleWorkingDaysChange(endDate, days, hs) ==
  IF days = 1 THEN endDate ELSE calculateStartDate(endDate, days, hs)

\* A value is typed into the Working Days input of the panel, whose end date
\* is argDate: argDays becomes the count passed on by onChange.
HandleWorkingDaysInput(inputValue) ==
  /\ call = "none"
  /\ call' = "handleWorkingDaysChange"
  /\ argDays' = inputDays(inputValue)
  /\ result' = handleWorkingDaysChange(argDate, argDays', argHolidays)
  /\ UNCHANGED <<argHolidays, argDate, storeVars, workingDayForm, authVars, tasksDb, calVars, ordersVars>>

\* A rule array with a day_of_week rule for each of the seven weekdays, all
\* in force from day 0: every day from day 0 on is a holiday.
EveryWeekdayRules == {Holiday(0, "day_of_week", Null, w, 0, FALSE) : w \in 0..6}

ScenarioArrays == {EveryWeekdayRules}

\* A Saturday rule and a Sunday rule, in force from fromSat and fromSun.
WeekendRules(fromSat, fromSun) ==
  {Holiday(0, "day_of_week", Null, 6, fromSat, FALSE),
   Holiday(0, "day_of_week", Null, 0, fromSun, FALSE)}

\* start_from of a weekend rule: not set, Monday 2024-01-01, Saturday
\* 2024-01-06, or Monday 2024-01-08.
WeekendStartFroms == {Null, 1, 6, 8}
WeekendArrays == {WeekendRules(a, b) : a \in WeekendStartFroms, b \in WeekendStartFroms}

\* Wednesday 2024-01-10 and the five working days counted back from it.
ScenarioEndDate == 10
ScenarioWorkingDays == 5

InitArith ==
  /\ InitSystem
  /\ \/ /\ argHolidays \in HolidayArrays \cup ScenarioArrays
        /\ argDate \in Dates
        /\ argDays \in WorkingDayCounts \cup LowDayCounts
     \/ /\ argHolidays \in WeekendArrays
        /\ argDate = ScenarioEndDate
        /\ argDays = ScenarioWorkingDays
  /\ call = "none"
  /\ result = Null

NextArith ==
  \/ CallIsHoliday
  \/ CallPanelIsHoliday
  \/ CallOrdersIsHoliday
  \/ CallDueDatesIsHoliday
  \/ CallIsDateHoliday
  \/ CallCalculateStartDate
  \/ CallCalculateEndDate
  \/ CallUpdateStartDate
  \/ CallOrdersUpdateStartDate
  \/ CallSaveEditingStartDate
  \/ CallMoveEndDate
  \/ CallOrdersMoveEndDate
  \/ CallGetHolidayDatesInRange
  \/ CallPanelGetHolidayDatesInRange
  \/ CallOrdersGetHolidayDatesInRange
  \/ CallCreateNewTask
  \/ \E inputValue \in InputValues : HandleWorkingDaysInput(inputValue)

\* One call of a classifier or a date walk on enumerated arguments.
SpecArith == InitArith /\ [][NextArith]_vars

\* ============================================================ properties
ClassifierCalls == {"isHoliday", "panelIsHoliday", "ordersIsHoliday"}

\* A rule of hs that puts `date` among the holidays by itself: a specific_date
\* rule on the date, or a day_of_week rule for its weekday in effect on it.
ExplicitRuleOn(date, hs) ==
  \E h \in hs :
    \/ h.holiday_type = "specific_date" /\ h.specific_date = date
    \/ /\ h.holiday_type = "day_of_week"
       /\ h.day_of_week = getDay(date)
       /\ h.start_from # Null
       /\ date >= h.start_from

ExceptionOn(date, hs) ==
  \E h \in hs : h.holiday_type = "exception" /\ h.specific_date = date

\* C1: whenever the rules hold an Exception for the date, every classifier
\* answers "not a holiday", whatever else matches the date (a specific_date
\* rule, a day_of_week rule, the date being a Saturday or a Sunday).
C1_ExceptionOverrides ==
  (call \in ClassifierCalls /\ ExceptionOn(argDate, argHolidays)) => result = FALSE

\* C3: a day_of_week rule makes a date a holiday only when its weekday is the
\* date's, its start_from is set and the date is not before start_from: with
\* no specific_date rule on the date, a classifier answers "holiday" only if
\* such a rule is among the rules.
C3_DayOfWeekNeedsStartFrom ==
  (/\ call \in ClassifierCalls
   /\ result = TRUE
   /\ ~\E h \in argHolidays : h.holiday_type = "specific_date" /\ h.specific_date = argDate)
    => \E h \in argHolidays :
         /\ h.holiday_type = "day_of_week"
         /\ h.day_of_week = getDay(argDate)
         /\ h.start_from # Null
         /\ argDate >= h.start_from

\* C4: no classifier has a weekend rule of its own: a Saturday or Sunday is a
\* holiday only by a specific_date rule on it or a day_of_week rule in effect
\* on it, and under the empty rule array no date is a holiday.
C4_NoImplicitWeekend ==
  call \in ClassifierCalls =>
    /\ (getDay(argDate) \in {0, 6} /\ result = TRUE) => ExplicitRuleOn(argDate, argHolidays)
    /\ argHolidays = {} => result = FALSE

StartDateCalls == {"calculateStartDate", "updateStartDate", "ordersUpdateStartDate"}

\* C5: the start date computed for an end date and n working days is such
\* that the inclusive range from it to the end date holds exactly n dates
\* that are not holidays under the rules.
C5_RangeHoldsWorkingDays ==
  (call \in StartDateCalls /\ result # Null) =>
    Cardinality(WorkingDatesIn(result, argDate, argHolidays)) = argDays

\* C6: round trip. When the end date is not itself a holiday, walking forward
\* from the computed start date over the same number of working days, with
\* calculateEndDate or with moveTaskToDate's walk, arrives at the end date.
C6_RoundTrip ==
  (/\ call \in {"calculateStartDate", "updateStartDate"}
   /\ result # Null
   /\ ~isHoliday(argDate, argHolidays))
    => /\ calculateEndDate(result, argDays, argHolidays) = argDate
       /\ moveEndDate(result, argDays, argHolidays) = argDate

\* A start date was computed for a working end date and more than one working
\* day, and the walk stepped over at least one holiday on its way back.
C6_Witness ==
  /\ call = "calculateStartDate"
  /\ result # Null
  /\ ~isHoliday(argDate, argHolidays)
  /\ argDays > 1
  /\ argDate - result > argDays - 1

\* e is the end date of n working days from start: start itself for n <= 1,
\* else the earliest later date that is not a holiday and closes a range
\* (start, e] of exactly n - 1 dates that are not holidays.
IsEndDateOf(e, start, n, hs) ==
  IF n <= 1 THEN e = start
  ELSE LET closes(x) == /\ x > start
                        /\ ~isHoliday(x, hs)
                        /\ Cardinality(WorkingDatesIn(start + 1, x, hs)) = n - 1
       IN  closes(e) /\ \A x \in (start + 1)..(e - 1) : ~closes(x)

\* C7: calculateEndDate counts the start date as the first working day
\* whatever its holiday status and returns the end date of n working days
\* from it, and the forward walks of both moveTaskToDate functions (calendar
\* and OrdersTable) return the same date for the same arguments.
C7_EndDateAndMoveAgree ==
  (call = "calculateEndDate" /\ result # Null) =>
    /\ IsEndDateOf(result, argDate, argDays, argHolidays)
    /\ moveEndDate(argDate, argDays, argHolidays) = result
    /\ ordersMoveEndDate(argDate, argDays, argHolidays) = result

\* Dates the calendar page classifies in this model.
ShownDates == (FirstDay - 1)..(LastDay + PickSpan)

NotCancelled(rows) == {h \in rows : ~h.cancelled}

\* C2: a rule with cancelled = true never contributes to classification.
\* No row the calendar holds is cancelled; every date classifies over the
\* loaded table as it does over the table's non-cancelled rows; and when the
\* table holds cancelled specific_date rules only, no date is a holiday.
C2_CancelledNeverApplies ==
  /\ \A h \in holidays : ~h.cancelled
  /\ \A d \in ShownDates :
       isHoliday(d, getActiveAndFutureHolidays(db, today))
         = isHoliday(d, getActiveAndFutureHolidays(NotCancelled(db), today))
  /\ (\A h \in db : h.cancelled /\ h.holiday_type = "specific_date")
       => \A d \in ShownDates : ~isHoliday(d, getActiveAndFutureHolidays(db, today))

\* The table holds a cancelled specific_date rule for today or later beside a
\* rule still active, and the calendar has loaded exactly the active rows.
C2_Witness ==
  /\ mountPc = "ready"
  /\ holidays # {}
  /\ holidays = getActiveAndFutureHolidays(db, today)
  /\ \E h \in db : /\ h.cancelled
                   /\ h.holiday_type = "specific_date"
                   /\ h.specific_date >= today
                   /\ ~isHoliday(h.specific_date, holidays)

\* C8: stale-date detection is complete. Once the calendar has loaded the
\* rules as they are now, every cached holiday date of a task that is no
\* holiday under them is reported: the date is in datesWithCancelledHolidays
\* and the task in tasksWithOutdatedHolidayDates.
C8_StaleDatesReported ==
  (mountPc = "ready" /\ holidays = getActiveAndFutureHolidays(db, today)) =>
    \A t \in tasks : \A c \in t.holidayDates :
      ~isHoliday(c, holidays) =>
        /\ c \in datesWithCancelledHolidays
        /\ t.id \in tasksWithOutdatedHolidayDates

\* C9: right after a task is saved, moved or recalculated, the outdated-date
\* check reports nothing for it: the task is not in
\* tasksWithOutdatedHolidayDates and none of its cached holiday dates is in
\* datesWithCancelledHolidays.
C9_FreshCacheNotStale ==
  lastOp.op \in {"save", "move", "recalculate"} =>
    /\ lastOp.id \notin tasksWithOutdatedHolidayDates
    /\ \A t \in tasks :
         t.id = lastOp.id =>
           /\ t.holidayDates \cap datesWithCancelledHolidays = {}
           /\ outdatedDatesOf(t, holidays) = {}

\* A task was just recalculated, saved or moved under a non-empty rule array
\* and its fresh cache holds a holiday date, so the check ran over that date.
C9_Witness ==
  /\ lastOp.op \in {"save", "move", "recalculate"}
  /\ holidays # {}
  /\ \E t \in tasks : t.id = lastOp.id /\ t.holidayDates # {}

\* C10: the holidays table never holds more than one day_of_week rule that
\* is not cancelled.
C10_OneActiveRecurring == Cardinality(hasActiveRecurringHoliday(db)) <= 1

\* C11: every row of the tasks table, as the save and move paths leave it,
\* has its end date on or before its due date.
C11_EndNotAfterDue == \A t \in tasksDb : t.endDate <= t.dueDate

\* C12: the forward walk of moveTaskToDate takes no due date; when the end
\* date it computes is later than the task's due date, the move is refused
\* with a toast (by moveTaskToDate, or by handleDateClick before it) and
\* neither the task list nor the tasks table changes.
C12_LateMoveRejected ==
  [][\A t \in tasks, date \in PickDates :
       (/\ MoveTaskToDate(t, date)
        /\ moveEndDate(date, moveWorkingDays(t), holidays) > t.dueDate)
         => /\ tasks' = tasks
            /\ tasksDb' = tasksDb
            /\ lastOp'.op \in {"Invalid Date", "Validation Error", "Cannot Move Task"}]_vars

\* A move was just refused because its end date would pass the due date.
C12_Witness ==
  /\ lastOp.op = "Cannot Move Task"
  /\ \E t \in tasks : t.id = lastOp.id /\ t \in tasksDb

ScanCalls ==
  {"getHolidayDatesInRange", "panelGetHolidayDatesInRange", "ordersGetHolidayDatesInRange"}

\* C13: each getHolidayDatesInRange returns exactly the dates of the range
\* start..end, both ends included, that the holiday classifier of the
\* calendar calls holidays: none is left out and no other date is returned.
C13_ScanIsExact ==
  call \in ScanCalls =>
    result = {d \in argDate..scanEndDate : isHoliday(d, argHolidays)}

\* Dates of a task's range that are holidays under the loaded rules and are
\* missing from its cached holiday dates.
UncachedHolidays(t) ==
  {d \in t.startDate..t.endDate : isHoliday(d, holidays) /\ d \notin t.holidayDates}

\* C14 as stated: for every task, every date of its range that is a holiday
\* under the rules now loaded and is not in its cached holiday dates is
\* reported by the new-holiday scan: the date is in datesWithNewHolidays and
\* the task in tasksAffectedByNewHolidays.
C14_NewHolidaysReported ==
  \A t \in tasks : \A d \in UncachedHolidays(t) :
    d \in datesWithNewHolidays /\ t.id \in tasksAffectedByNewHolidays

\* C14, amended: the same for every task whose status is not Completed.
C14_NewHolidaysReportedUnlessCompleted ==
  \A t \in tasks : t.status # "Completed" =>
    \A d \in UncachedHolidays(t) :
      d \in datesWithNewHolidays /\ t.id \in tasksAffectedByNewHolidays

\* A task that is not Completed has a holiday on the last day of its range
\* that its cache lacks, and the scan has reported it.
C14_Witness ==
  \E t \in tasks : /\ t.status # "Completed"
                    /\ t.endDate > t.startDate
                    /\ t.endDate \in UncachedHolidays(t)
                    /\ t.endDate \in datesWithNewHolidays
                    /\ t.id \in tasksAffectedByNewHolidays

DateFields(t) == <<t.startDate, t.endDate, t.holidayDates>>
UserOps == {"save", "move", "recalculate", "autoFix"}

\* C15: no step changes the start date, end date or cached holiday dates of
\* a stored task, or shows the calendar a task whose three fields are
\* neither those it showed before nor those of the stored row, unless the
\* step is a save, a move, a recalculation or an Auto-Fix of that task. The
\* steps of createHoliday, cancelHoliday and clearCancelledHolidays, and the
\* fetches and checks that follow them, leave all three fields as they were.
C15_NoAutoCorrection ==
  [][/\ \A u \in tasksDb : \A v \in tasksDb' :
          (u.id = v.id /\ DateFields(u) # DateFields(v))
            => (lastOp'.op \in UserOps /\ lastOp'.id = u.id)
     /\ \A v \in tasks' :
          (\A u \in tasks \cup tasksDb : u.id = v.id => DateFields(u) # DateFields(v))
            => (lastOp'.op \in UserOps /\ lastOp'.id = v.id)
     /\ (db' # db) => (tasksDb' = tasksDb /\ tasks' = tasks)]_vars

\* The calendar has loaded the rules as they are now and run its checks, no
\* task was saved, moved or recalculated since, and a stored task still
\* carries a cache that differs from the scan of its range.
C15_Witness ==
  /\ mountPc = "ready"
  /\ lastOp = NoOp
  /\ holidays # {}
  /\ holidays = getActiveAndFutureHolidays(db, today)
  /\ \E t \in tasks :
       /\ t \in tasksDb
       /\ t.holidayDates # getHolidayDatesInRange(t.startDate, t.endDate, holidays)

WalkCalls == {"calculateStartDate", "calculateEndDate", "moveEndDate"}
ForwardCalls == {"calculateEndDate", "moveEndDate"}

\* The days a walk visits in its first MaxWalk iterations that are no
\* holidays for the classifier it uses.
WorkingDaysOnTheWay ==
  IF call = "calculateStartDate"
    THEN {d \in (argDate - MaxWalk)..(argDate - 1) : ~panelIsHoliday(d, argHolidays)}
  ELSE IF call = "calculateEndDate"
    THEN {d \in (argDate + 1)..(argDate + MaxWalk) : ~panelIsHoliday(d, argHolidays)}
  ELSE {d \in (argDate + 1)..(argDate + MaxWalk) : ~isHoliday(d, argHolidays)}

\* Every day after `date` is a holiday: each weekday has a day_of_week rule
\* in force by the day after `date`, and no exception lies after `date`.
EveryDayAfterIsHoliday(date, hs) ==
  /\ \A w \in 0..6 :
       \E h \in hs : /\ h.holiday_type = "day_of_week"
                      /\ h.day_of_week = w
                      /\ h.start_from # Null
                      /\ h.start_from <= date + 1
  /\ \A h \in hs : h.holiday_type = "exception" => h.specific_date <= date

\* C17: the walks of calculateStartDate, calculateEndDate and moveTaskToDate
\* have no iteration bound. A forward walk for more than one working day
\* under rules that make every later day a holiday is still running after
\* MaxWalk iterations, whatever MaxWalk is; a walk has ended as soon as the
\* days it visits hold workingDays - 1 days that are no holidays, and so it
\* ends under every rule array with at most one day_of_week rule.
C17_WalkEndsIffWorkingDaysExist ==
  call \in WalkCalls =>
    /\ (call \in ForwardCalls /\ argDays > 1
          /\ EveryDayAfterIsHoliday(argDate, argHolidays)) => result = Null
    /\ (result = Null) <=> (Cardinality(WorkingDaysOnTheWay) < argDays - 1)
    /\ Cardinality({h \in argHolidays : h.holiday_type = "day_of_week"}) <= 1
         => result # Null

\* A forward walk for more than one working day was called under rules that
\* make every later day a holiday, and it is still running.
C17_Witness ==
  /\ call \in ForwardCalls
  /\ argDays > 1
  /\ EveryDayAfterIsHoliday(argDate, argHolidays)
  /\ result = Null

\* C18: the panel never calls calculateStartDate with a working-day count
\* below 1: whenever handleWorkingDaysChange goes on to the walk (its days
\* is not 1), the count it passes is at least 1.
C18_WalkCountAtLeastOne ==
  (call = "handleWorkingDaysChange" /\ argDays # 1) => argDays >= 1

ScenarioCall ==
  /\ call \in StartDateCalls
  /\ argDate = ScenarioEndDate
  /\ argDays = ScenarioWorkingDays

C20_NoHolidaysPlainOffset ==
  (/\ call \in {"calculateStartDate", "ordersUpdateStartDate"}
   /\ argDays > 1
   /\ \A d \in (argDate - (argDays - 1))..argDate : ~isHoliday(d, argHolidays))
    => result = argDate - (argDays - 1)

\* C21: for a working-day count of 1 or less, the start date computed by
\* calculateStartDate, by the panel's updateStartDate and by the orders
\* table's updateStartDate is the end date itself, under every rule array
\* and whether or not the end date is a holiday.
C21_SingleDayStartIsEnd ==
  (call \in StartDateCalls /\ argDays <= 1) => result = argDate

\* calculateStartDate was called with a count below 1 for an end date that is
\* a holiday, and returned the end date.
C21_Witness ==
  /\ call = "calculateStartDate"
  /\ argDays < 1
  /\ panelIsHoliday(argDate, argHolidays)
  /\ result = argDate

\* s is the start date of n > 1 working days that end on `end`: a date before
\* `end` that is no holiday and opens a range [s, end - 1] of exactly n - 1
\* dates that are no holidays, and the latest such date.
IsStartDateOf(s, end, n, hs) ==
  LET opens(x) == /\ x < end
                  /\ ~isHoliday(x, hs)
                  /\ Cardinality(WorkingDatesIn(x, end - 1, hs)) = n - 1
  IN  opens(s) /\ \A x \in (s + 1)..(end - 1) : ~opens(x)

\* C22: for n > 1 working days, the backward walks of calculateStartDate and
\* of saveEditing return the latest date before the end date that is no
\* holiday and has exactly n - 1 dates that are no holidays between itself
\* and the day before the end date; the date returned is never a holiday,
\* and the result is the same whether or not the end date is a holiday.
C22_BackwardWalkIsExact ==
  (/\ call \in {"calculateStartDate", "saveEditingStartDate"}
   /\ argDays > 1
   /\ result # Null)
    => /\ IsStartDateOf(result, argDate, argDays, argHolidays)
       /\ ~isHoliday(result, argHolidays)


\* The holidays of a task's range under every rule of the table that is not
\* cancelled, whatever the rule's date.
RuleSetHolidays(t) ==
  getHolidayDatesInRange(t.startDate, t.endDate, NotCancelled(db))

\* C23: with no rule created or cancelled since a task's cache was computed
\* (the table never changes and the cache holds the holidays of the task's
\* range under the table's rules), on whatever day the calendar has loaded
\* its rules, the task is reported neither for outdated nor for new holiday
\* dates, and the loaded rules classify every date of its range as the
\* table's rules do.
C23_ClockNeverStalesCache ==
  (mountPc = "ready" /\ holidays = getActiveAndFutureHolidays(db, today)) =>
    \A t \in tasks :
      t.holidayDates = RuleSetHolidays(t) =>
        /\ t.id \notin tasksWithOutdatedHolidayDates
        /\ t.id \notin tasksAffectedByNewHolidays
        /\ \A d \in t.startDate..t.endDate :
             isHoliday(d, holidays) = isHoliday(d, NotCancelled(db))

\* C24: the holiday_dates that createNewTask stores for a task are exactly
\* the dates of the task's range that the calendar's classifier (exception
\* first, day_of_week rules only from their start_from) calls holidays, so
\* that for the stored task neither the outdated-date check nor the
\* new-holiday check of the calendar finds a date under the same rules.
C24_CreatedCacheIsCanonical ==
  call = "createNewTask" =>
    LET t == Task(1, argDate, scanEndDate, scanEndDate, argDays, result, "New")
    IN  /\ result = {d \in argDate..scanEndDate : isHoliday(d, argHolidays)}
        /\ outdatedDatesOf(t, argHolidays) = {}
        /\ newHolidayDatesOf(t, argHolidays) = {}

\* The four steps in their order: an Exception on the date, then a
\* SpecificDate rule on the date, then a DayOfWeek rule for the date's
\* weekday whose effective_from is set and not after the date, else false.
FourStepIsHoliday(date, hs) ==
  IF \E h \in hs : h.holiday_type = "exception" /\ h.specific_date = date
    THEN FALSE
  ELSE IF \E h \in hs : h.holiday_type = "specific_date" /\ h.specific_date = date
    THEN TRUE
  ELSE IF \E h \in hs : /\ h.holiday_type = "day_of_week"
                        /\ h.day_of_week = getDay(date)
                        /\ h.start_from # Null
                        /\ date >= h.start_from
    THEN TRUE
  ELSE FALSE

CopyCalls == {"isHoliday", "panelIsHoliday", "dueDatesIsHoliday"}

\* C25: for every date and every array of rules that are not cancelled,
\* CalendarWithTasks.isHoliday, TaskPanel.isHoliday, DueDatesPage.isHoliday
\* and isDateHoliday (when its queries succeed over a table that holds the
\* same rules) return the answer of the four-step algorithm, and so the
\* same answer as one another.
C25_CopiesAgree ==
  LET canonical == FourStepIsHoliday(argDate, argHolidays)
  IN  /\ call \in CopyCalls =>
           /\ result = canonical
           /\ isHoliday(argDate, argHolidays) = canonical
           /\ panelIsHoliday(argDate, argHolidays) = canonical
           /\ dueDatesIsHoliday(argDate, argHolidays) = canonical
           /\ isDateHoliday(argHolidays, argDate, FALSE, FALSE).isHoliday = canonical
      /\ (call = "isDateHoliday" /\ ~result.error) => result.isHoliday = canonical

\* isDateHoliday answered "holiday" for a date with an Exception-free
\* day_of_week match and no specific_date rule: its third step decided.
C25_Witness ==
  /\ call = "isDateHoliday"
  /\ ~result.error
  /\ result.isHoliday
  /\ ~\E h \in argHolidays : h.specific_date = argDate
  /\ dueDatesIsHoliday(argDate, argHolidays)

\* C26: the maximum start date of handleTaskClick is exact. A click on a
\* date after it is refused by handleDateClick ("Invalid Date") and changes
\* nothing; a click on a date on or before it moves the task, which then
\* starts on that date and ends on or before its due date.
C26_MaxStartDateIsExact ==
  [][\A t \in tasks, date \in PickDates :
       MoveTaskToDate(t, date) =>
         IF date > maxStartDateOf(t, holidays)
           THEN /\ lastOp'.op = "Invalid Date"
                /\ tasks' = tasks
                /\ tasksDb' = tasksDb
           ELSE /\ lastOp'.op = "move"
                /\ \A v \in tasks' :
                     v.id = t.id => (v.startDate = date /\ v.endDate <= v.dueDate)]_vars

\* C27: every row of the tasks table, as handleSave, saveEditing,
\* moveTaskToDate and Auto-Fix & Save leave it, spans at most
\* MaxDurationDays calendar days from its start date to its end date, both
\* included.
C27_DurationAtMostThirty ==
  \A t \in tasksDb : differenceInDays(t.endDate, t.startDate) + 1 <= MaxDurationDays

\* A specific_date rule whose date is before `now`.
PastSpecificDate(h, now) ==
  h.holiday_type = "specific_date" /\ h.specific_date # Null /\ h.specific_date < now

\* C28: the rules that are not cancelled change only by createHoliday adding
\* one row, or by cancelHoliday turning one row into the same row with
\* cancelled = true and the day's date as cancelled_date (the row stays in
\* the table); cancelHoliday on a specific_date rule whose date is before
\* today leaves the table as it was; clearCancelledHolidays deletes only
\* cancelled rows, leaves the rules that are not cancelled as they were and
\* changes the classification of no date.
C28_RuleSetFrame ==
  [][/\ NotCancelled(db') # NotCancelled(db) =>
          \/ \E h \in db' \ db :
               ~h.cancelled /\ db' = db \cup {h} /\ (\A g \in db : g.id # h.id)
          \/ \E h \in NotCancelled(db) :
               db' = (db \ {h})
                       \cup {[h EXCEPT !.cancelled = TRUE, !.cancelled_date = today]}
     /\ \A h \in db :
          (CancelHoliday(h.id) /\ PastSpecificDate(h, today)) => db' = db
     /\ ClearCancelledHolidays =>
          /\ db' \subseteq db
          /\ \A h \in db \ db' : h.cancelled
          /\ NotCancelled(db') = NotCancelled(db)
          /\ \A d \in ShownDates :
               /\ isDateHoliday(db', d, FALSE, FALSE) = isDateHoliday(db, d, FALSE, FALSE)
               /\ isHoliday(d, getActiveAndFutureHolidays(db', today))
                    = isHoliday(d, getActiveAndFutureHolidays(db, today))]_vars

\* The table holds a specific_date rule, not cancelled, whose date has
\* passed, beside a rule that cancelHoliday has marked cancelled on a day
\* recorded in the row.
C28_Witness ==
  /\ \E h \in db : ~h.cancelled /\ PastSpecificDate(h, today)
  /\ \E h \in db : h.cancelled /\ h.cancelled_date # Null

\* C29: an exception row enters the holidays table only for a date that is a
\* holiday under the table as it is when the row is inserted; a submission
\* of the "Add Working Day" form for a date that is no holiday then leaves
\* the table as it was.
C29_WorkingDayOnlyOnHoliday ==
  [][/\ \A h \in db' \ db :
          h.holiday_type = "exception"
            => isDateHoliday(db, h.specific_date, FALSE, FALSE).isHoliday
     /\ \A c \in Clients :
          (/\ FormSubmit(c)
           /\ workingDayForm[c].specific_date # Null
           /\ ~isDateHoliday(db, workingDayForm[c].specific_date, FALSE, FALSE).isHoliday)
            => db' = db]_vars

\* C30: once MAX_ATTEMPTS attempts are counted for an address, a call of
\* verifyPasscode from it no later than TIMEOUT_DURATION after the last
\* counted attempt returns rateLimited, counts nothing and does not go on to
\* compare the passcode; a call later than that sets the counter to 1 and is
\* compared; a successful login deletes the address's entry.
C30_RateLimitPerIp ==
  [][/\ \A ip \in IpAddresses :
          (\E passcodeMatches \in BOOLEAN, rememberMe \in BOOLEAN :
              VerifyPasscode(passcodeMatches, rememberMe, ip))
          /\ ip \in DOMAIN loginAttempts
            => IF nowMs - loginAttempts[ip].lastAttempt > TIMEOUT_DURATION
                 THEN /\ loginAttempts'[ip] = [count |-> 1, lastAttempt |-> nowMs]
                      /\ \E login \in PendingCalls :
                           /\ login.ipAddress = ip
                           /\ pendingLogins' = pendingLogins (+) SetToBag({login})
               ELSE IF loginAttempts[ip].count >= MAX_ATTEMPTS
                 THEN /\ authResult' = [ipAddress |-> ip, outcome |-> "rateLimited"]
                      /\ loginAttempts' = loginAttempts
                      /\ pendingLogins' = pendingLogins
               ELSE authResult' = authResult
     /\ \A login \in PendingCalls :
          VerifyPasscodeCompare(login) /\ authResult'.outcome = "success"
            => login.ipAddress \notin DOMAIN loginAttempts']_vars

\* The sixth attempt of an address is made exactly TIMEOUT_DURATION after
\* its fifth and is turned away.
C30_Witness ==
  /\ authResult = [ipAddress |-> "10.0.0.7", outcome |-> "rateLimited"]
  /\ "10.0.0.7" \in DOMAIN loginAttempts
  /\ loginAttempts["10.0.0.7"].count = MAX_ATTEMPTS
  /\ nowMs - loginAttempts["10.0.0.7"].lastAttempt = TIMEOUT_DURATION
  /\ pendingLogins = EmptyBag
====
